---------------------------- MODULE Spec2Model ----------------------------
(***************************************************************************)
(* A model of the Tyre Quotation App (React/TypeScript, browser-local).    *)
(*                                                                         *)
(*   App            src/components/QuotationPreview.tsx  lines 156-325     *)
(*   QuotationPreview  src/components/QuotationPreview.tsx  lines 9-130    *)
(*   QuotationForm  src/unnamed/part_002  lines 13-307                     *)
(*   SettingsModal  src/unnamed/part_002  lines 330-520                    *)
(*   QuoteCard / SavedQuotesList  src/unnamed/part_000  lines 74-196       *)
(*   LoginScreen    src/components/LoginScreen.tsx                         *)
(*                                                                         *)
(* JavaScript numbers are modelled as exact rationals (records n/d in      *)
(* lowest terms): the rounding error of IEEE-754 doubles is not modelled.  *)
(* Strings that the code inspects character by character (quote numbers)   *)
(* are sequences of one-character strings.  Of a Quotation's text fields   *)
(* only customerName and date are kept: customerPhone, customerEmail,      *)
(* customerAddress, vehicleMake, vehicleModel, vehicleYear, notes and      *)
(* status are written by the same handler (handleChange) and read by no    *)
(* logic.  A LineItem's id (a React key) is likewise left out.             *)
(***************************************************************************)
EXTENDS Integers, Sequences, FiniteSets, TLC

VARIABLES
    today,            \* the calendar day new Date() returns (an index of days)
    localStorage,     \* [tyreQuotes, companyDetails]: the two persisted records
    sessionStorage,   \* [isAuthenticated]: the session marker
    isAppReady,       \* App state (QuotationPreview.tsx 157-163)
    isAuthenticated,
    view,
    quotes,
    selectedQuote,
    isSettingsOpen,
    companyDetails,
    quote,            \* QuotationForm's draft (part_002 52), NoForm when unmounted
    itemRef,          \* for each draft line item: the position in selectedQuote's
                      \* lineItems of the object it IS (shared reference), 0 if fresh
    showPreview,      \* QuotationForm state (part_002 71)
    currentDetails,   \* SettingsModal's draft (part_002 331), NoModal when closed
    readers,          \* the FileReaders still reading a QR image (part_002 347-351)
    password,         \* LoginScreen state (LoginScreen.tsx 9-10)
    error,
    nextId            \* the number of identifiers crypto.randomUUID() has issued

vars == <<today, localStorage, sessionStorage, isAppReady, isAuthenticated, view,
          quotes, selectedQuote, isSettingsOpen, companyDetails, quote, itemRef,
          showPreview, currentDetails, readers, password, error, nextId>>

---------------------------------------------------------------------------
(* Bounds of the model. *)

\* identifiers crypto.randomUUID() may issue to quotes (bounds the creations)
MaxIds == 3
\* calendar days the clock may pass through
MaxDays == 2
\* line items of one draft
MaxItems == 2

---------------------------------------------------------------------------
(* JavaScript values. *)

Undefined == [t |-> "undefined"]
Null == [t |-> "null"]
Str(s) == [t |-> "string", s |-> s]
EmptyString == Str("")

RECURSIVE GCD(_, _)
GCD(a, b) == IF b = 0 THEN a ELSE GCD(b, a % b)

Abs(a) == IF a < 0 THEN -a ELSE a

\* the number n/d (d # 0) in lowest terms with a positive denominator
Num(n, d) ==
    LET g == GCD(Abs(n), Abs(d))
        s == IF d < 0 THEN -1 ELSE 1
    IN  [t |-> "number", n |-> (s * n) \div g, d |-> (s * d) \div g]

Whole(n) == Num(n, 1)

IsNumber(v) == v.t = "number"

\* ToNumber, as the operators -, > apply it: '' converts to 0
ToNumber(v) == IF IsNumber(v) THEN v ELSE Whole(0)

Add(a, b) == LET x == ToNumber(a) y == ToNumber(b)
             IN  Num(x.n * y.d + y.n * x.d, x.d * y.d)
Sub(a, b) == LET x == ToNumber(a) y == ToNumber(b)
             IN  Num(x.n * y.d - y.n * x.d, x.d * y.d)
Mul(a, b) == LET x == ToNumber(a) y == ToNumber(b)
             IN  Num(x.n * y.n, x.d * y.d)
\* a / b for b # 0
Div(a, b) == LET x == ToNumber(a) y == ToNumber(b)
             IN  Num(x.n * y.d, x.d * y.n)
Gt(a, b) == LET x == ToNumber(a) y == ToNumber(b)
            IN  x.n * y.d > y.n * x.d

\* a variant that rounds a tie away from zero: -3.5 to -4
MathRound_halfAwayFromZero(x) ==
    IF x.n >= 0 THEN Whole((2 * x.n + x.d) \div (2 * x.d))
    ELSE Whole(0 - ((2 * (0 - x.n) + x.d) \div (2 * x.d)))

\* Math.round: the integer nearest to x, a tie going up: floor(x + 1/2)
MathRound(x) == Whole((2 * x.n + x.d) \div (2 * x.d))

\* the value of an <input type="number">: '' or the decimal text of a number
\* (the text itself is not spelled out, the number it denotes is kept), which
\* parseFloat and Number read back
NumText(n, d) == [t |-> "string", s |-> "decimal", n |-> Num(n, d).n, d |-> Num(n, d).d]
parseFloat(value) == Num(value.n, value.d)
Number(value) == Num(value.n, value.d)

---------------------------------------------------------------------------
(* Strings that are read character by character. *)

Digits == <<"0", "1", "2", "3", "4", "5", "6", "7", "8", "9">>

\* Number.prototype.toString of a natural number
RECURSIVE toString(_)
toString(n) == IF n < 10 THEN <<Digits[n + 1]>>
               ELSE toString(n \div 10) \o <<Digits[(n % 10) + 1]>>

\* String.prototype.padStart with a one-character filler
RECURSIVE padStart(_, _, _)
padStart(s, len, ch) == IF Len(s) >= len THEN s ELSE padStart(<<ch>> \o s, len, ch)

\* String.prototype.slice(-k)
sliceLast(s, k) == IF Len(s) <= k THEN s ELSE SubSeq(s, Len(s) - k + 1, Len(s))

startsWith(s, p) == Len(p) <= Len(s) /\ SubSeq(s, 1, Len(p)) = p

---------------------------------------------------------------------------
(* The data model (src/unnamed/part_003) and the constants of the code. *)

NoForm == [t |-> "unmounted"]
NoModal == [t |-> "closed"]

\* a missing property reads as undefined
Get(obj, f) == IF f \in DOMAIN obj THEN obj[f] ELSE Undefined

defaultCompanyDetails ==
    [name |-> Str("HINDUSTAN TYRES"), upiQrCode |-> Str(""),
     defaultNotes |-> Str("terms"), defaultTaxRate |-> Whole(18)]

emptyLineItem == [description |-> "", quantity |-> Whole(1), unitAmount |-> Whole(0)]

\* new Date(): the clock shows the 9th, 10th, ... of January 2025, so that the
\* day of the month is written with one digit and then with two
Now == [date |-> 8 + today, month |-> 0, fullYear |-> 2025]

\* new Date().toISOString().split('T')[0], kept as the index of the day
isoDate == today

---------------------------------------------------------------------------
(* Money/Tax Calculator: the same seven lines in three components. *)

lineTotal(acc, item) == Add(acc, Mul(item.quantity, item.unitAmount))

\* Array.prototype.reduce(f, init), from the left
RECURSIVE reduce(_, _, _)
reduce(items, i, acc) ==
    IF i > Len(items) THEN acc ELSE reduce(items, i + 1, lineTotal(acc, items[i]))

\* a variant that never lets the total go below zero
QuotationForm_totals_clamped(q) ==
    LET grossTotal == reduce(q.lineItems, 1, Whole(0))
        totalAfterDiscount == Sub(grossTotal, q.discount)
        rounded == MathRound(totalAfterDiscount)
        grandTotal == IF Gt(Whole(0), rounded) THEN Whole(0) ELSE rounded
    IN  [subtotal |-> grossTotal, totalTax |-> Whole(0),
         roundOff |-> Sub(grandTotal, totalAfterDiscount), grandTotal |-> grandTotal]

\* a variant that takes the discount off before backing the tax out
QuotationForm_totals_discountFirst(q) ==
    LET taxDivisor == Add(Whole(1), IF Gt(q.taxRate, Whole(0))
                                    THEN Div(q.taxRate, Whole(100)) ELSE Whole(0))
        grossTotal == reduce(q.lineItems, 1, Whole(0))
        totalAfterDiscount == Sub(grossTotal, q.discount)
        subtotal == IF Gt(taxDivisor, Whole(1)) THEN Div(totalAfterDiscount, taxDivisor)
                    ELSE totalAfterDiscount
        totalTax == Sub(totalAfterDiscount, subtotal)
        grandTotal == MathRound(totalAfterDiscount)
        roundOff == Sub(grandTotal, totalAfterDiscount)
    IN  [subtotal |-> subtotal, totalTax |-> totalTax,
         roundOff |-> roundOff, grandTotal |-> grandTotal]

QuotationForm_totals(q) ==
    LET taxDivisor == Add(Whole(1), IF Gt(q.taxRate, Whole(0))
                                    THEN Div(q.taxRate, Whole(100)) ELSE Whole(0))
        grossTotal == reduce(q.lineItems, 1, Whole(0))
        subtotal == IF Gt(taxDivisor, Whole(1)) THEN Div(grossTotal, taxDivisor)
                    ELSE grossTotal
        totalTax == Sub(grossTotal, subtotal)
        totalAfterDiscount == Sub(grossTotal, q.discount)
        grandTotal == MathRound(totalAfterDiscount)
        roundOff == Sub(grandTotal, totalAfterDiscount)
    IN  [subtotal |-> subtotal, totalTax |-> totalTax,
         roundOff |-> roundOff, grandTotal |-> grandTotal]

\* a variant that adds the tax on top of the gross instead of backing it out
QuotationPreview_totals_taxOnTop(q) ==
    LET taxDivisor == Add(Whole(1), IF Gt(q.taxRate, Whole(0))
                                    THEN Div(q.taxRate, Whole(100)) ELSE Whole(0))
        grossTotal == reduce(q.lineItems, 1, Whole(0))
        subtotal == grossTotal
        totalTax == Sub(Mul(grossTotal, taxDivisor), grossTotal)
        totalAfterDiscount == Sub(grossTotal, q.discount)
        grandTotal == MathRound(totalAfterDiscount)
        roundOff == Sub(grandTotal, totalAfterDiscount)
    IN  [subtotal |-> subtotal, totalTax |-> totalTax,
         roundOff |-> roundOff, grandTotal |-> grandTotal]

QuotationPreview_totals(q) ==
    LET taxDivisor == Add(Whole(1), IF Gt(q.taxRate, Whole(0))
                                    THEN Div(q.taxRate, Whole(100)) ELSE Whole(0))
        grossTotal == reduce(q.lineItems, 1, Whole(0))
        subtotal == IF Gt(taxDivisor, Whole(1)) THEN Div(grossTotal, taxDivisor)
                    ELSE grossTotal
        totalTax == Sub(grossTotal, subtotal)
        totalAfterDiscount == Sub(grossTotal, q.discount)
        grandTotal == MathRound(totalAfterDiscount)
        roundOff == Sub(grandTotal, totalAfterDiscount)
    IN  [subtotal |-> subtotal, totalTax |-> totalTax,
         roundOff |-> roundOff, grandTotal |-> grandTotal]

\* a variant that forgets the discount
QuoteCard_grandTotal_noDiscount(q) ==
    LET grossTotal == reduce(q.lineItems, 1, Whole(0))
    IN  MathRound(grossTotal)

QuoteCard_grandTotal(q) ==
    LET grossTotal == reduce(q.lineItems, 1, Whole(0))
        totalAfterDiscount == Sub(grossTotal, q.discount)
        grandTotal == MathRound(totalAfterDiscount)
    IN  grandTotal

---------------------------------------------------------------------------
(* Quote Identifier Generator (src/unnamed/part_002 13-25). *)

datePrefixOf(date) ==
    LET day == padStart(toString(date.date), 2, "0")
        month == padStart(toString(date.month + 1), 2, "0")
        year == sliceLast(toString(date.fullYear), 2)
    IN  <<"Q", "T", "-">> \o day \o month \o year

\* a variant that counts every quote, whatever its date prefix
generateQuoteNumber_countAll(existingQuotes) ==
    LET datePrefix == datePrefixOf(Now)
        nextSerial == Len(existingQuotes) + 1
        serialNumber == padStart(toString(nextSerial), 4, "0")
    IN  datePrefix \o <<"-">> \o serialNumber

\* the number a four-digit serial stands for
serialValue(quoteNumber) ==
    LET digit(c) == CHOOSE v \in 0..9 : Digits[v + 1] = c
        n == Len(quoteNumber)
    IN  1000 * digit(quoteNumber[n - 3]) + 100 * digit(quoteNumber[n - 2])
        + 10 * digit(quoteNumber[n - 1]) + digit(quoteNumber[n])

\* a variant that issues one more than the highest same-day serial in use
generateQuoteNumber_maxSerial(existingQuotes) ==
    LET datePrefix == datePrefixOf(Now)
        todayQuotes == SelectSeq(existingQuotes,
                                 LAMBDA q : startsWith(q.quoteNumber, datePrefix))
        used == {serialValue(todayQuotes[i].quoteNumber) : i \in 1..Len(todayQuotes)}
        nextSerial == IF used = {} THEN 1
                      ELSE (CHOOSE m \in used : \A u \in used : u <= m) + 1
        serialNumber == padStart(toString(nextSerial), 4, "0")
    IN  datePrefix \o <<"-">> \o serialNumber

generateQuoteNumber(existingQuotes) ==
    LET datePrefix == datePrefixOf(Now)
        todayQuotes == SelectSeq(existingQuotes,
                                 LAMBDA q : startsWith(q.quoteNumber, datePrefix))
        nextSerial == Len(todayQuotes) + 1
        serialNumber == padStart(toString(nextSerial), 4, "0")
    IN  datePrefix \o <<"-">> \o serialNumber

---------------------------------------------------------------------------
(* The key-value store: a key is absent (getItem returns null), holds the  *)
(* text JSON.stringify wrote, or holds text that JSON.parse rejects.       *)

Corrupt == [t |-> "text", json |-> FALSE]
Json(v) == [t |-> "text", json |-> TRUE, value |-> v]

\* JSON.stringify of an object: properties whose value is undefined are left out
stringifyObject(obj) == [f \in {g \in DOMAIN obj : obj[g] # Undefined} |-> obj[f]]

\* JSON.stringify of a Quotation: of its properties only discount and taxRate
\* hold a value of more than one type, and one that is undefined is left out
stringifyQuote(q) ==
    [f \in {g \in DOMAIN q : ~(g \in {"discount", "taxRate"} /\ q[g] = Undefined)} |-> q[f]]

\* JSON.stringify of the quote collection
stringifyQuotes(qs) == Json([i \in 1..Len(qs) |-> stringifyQuote(qs[i])])

\* JSON.parse throws on text that is not JSON
parseThrows(item) == item # Null /\ ~item.json

\* a variant in which the defaults win over what was saved
spread_defaultsWin(base, over) ==
    [f \in DOMAIN base \cup DOMAIN over |-> IF f \in DOMAIN base THEN base[f] ELSE over[f]]

\* { ...defaultCompanyDetails, ...JSON.parse(savedDetails) }
spread(base, over) ==
    [f \in DOMAIN base \cup DOMAIN over |-> IF f \in DOMAIN over THEN over[f] ELSE base[f]]

\* !!details.password: undefined and '' are falsy
passwordIsSet(details) == Get(details, "password") \notin {Undefined, EmptyString}

---------------------------------------------------------------------------
(* App (src/components/QuotationPreview.tsx 156-325). *)

\* what the useState initialisers of App, and the unmounted children, hold
Constructed ==
    /\ view = "list"
    /\ quotes = <<>>
    /\ selectedQuote = Null
    /\ isSettingsOpen = FALSE
    /\ companyDetails = defaultCompanyDetails
    /\ isAuthenticated = FALSE
    /\ isAppReady = FALSE
    /\ quote = NoForm
    /\ itemRef = <<>>
    /\ showPreview = FALSE
    /\ currentDetails = NoModal
    /\ readers = {}
    /\ password = ""
    /\ error = ""

Init ==
    /\ today = 1
    /\ localStorage = [tyreQuotes |-> Null, companyDetails |-> Null]
    /\ sessionStorage = [isAuthenticated |-> FALSE]
    /\ nextId = 0
    /\ Constructed

\* the SettingsModal's state and the reads it started
modalState == <<currentDetails, readers>>

appState == <<view, quotes, selectedQuote, isSettingsOpen, companyDetails,
              isAuthenticated, isAppReady>>
formState == <<quote, itemRef, showPreview>>
loginState == <<password, error>>
environment == <<today, nextId>>

\* "Authentication logic" of the startup effect (181-192)
\* a variant that lets everyone in
initialAuthenticated_alwaysOpen(details) == TRUE

\* a variant that asks for the session marker even when no password is set
initialAuthenticated_markerOnly(details) ==
    LET sessionAuthenticated == sessionStorage.isAuthenticated
    IN  IF sessionAuthenticated THEN TRUE ELSE FALSE

initialAuthenticated(details) ==
    LET sessionAuthenticated == sessionStorage.isAuthenticated
    IN  IF ~passwordIsSet(details) THEN TRUE
        ELSE IF sessionAuthenticated THEN TRUE ELSE FALSE

\* the useEffect of App, run once after the first render
Startup ==
    /\ ~isAppReady
    /\ LET savedQuotes == localStorage.tyreQuotes
           savedDetails == localStorage.companyDetails
           details == IF savedDetails # Null
                      THEN spread(defaultCompanyDetails, savedDetails.value)
                      ELSE defaultCompanyDetails
       IN  IF parseThrows(savedQuotes) \/ parseThrows(savedDetails)
           THEN /\ quotes' = <<>>
                /\ companyDetails' = defaultCompanyDetails
                /\ isAuthenticated' = TRUE
           ELSE /\ quotes' = IF savedQuotes # Null THEN savedQuotes.value ELSE quotes
                /\ companyDetails' = details
                /\ isAuthenticated' = initialAuthenticated(details)
    /\ isAppReady' = TRUE
    /\ UNCHANGED <<view, selectedQuote, isSettingsOpen, formState, modalState,
                   loginState, localStorage, sessionStorage, environment>>

\* what is rendered (QuotationPreview.tsx 277-283)
LoginShown == isAppReady /\ ~isAuthenticated
\* a variant that renders the application without asking the gate
MainShown_noGate == isAppReady

MainShown == isAppReady /\ isAuthenticated
\* the settings modal and the preview are full-screen overlays (fixed inset-0):
\* what lies under an open overlay takes no input
ListShown == MainShown /\ view = "list" /\ ~isSettingsOpen
FormShown == MainShown /\ view = "form" /\ ~isSettingsOpen /\ ~showPreview

\* a variant that writes the collection as it was before the change
saveQuotesToLocalStorage_stale(updatedQuotes, stored) ==
    IF stored
    THEN /\ localStorage' = [localStorage EXCEPT !.tyreQuotes = stringifyQuotes(quotes)]
         /\ quotes' = updatedQuotes
    ELSE UNCHANGED <<localStorage, quotes>>

\* a variant that sets the collection in memory before it writes
saveQuotesToLocalStorage_memoryFirst(updatedQuotes, stored) ==
    /\ quotes' = updatedQuotes
    /\ IF stored
       THEN localStorage' = [localStorage EXCEPT !.tyreQuotes = stringifyQuotes(updatedQuotes)]
       ELSE UNCHANGED localStorage

saveQuotesToLocalStorage(updatedQuotes, stored) ==
    IF stored
    THEN /\ localStorage' = [localStorage EXCEPT !.tyreQuotes = stringifyQuotes(updatedQuotes)]
         /\ quotes' = updatedQuotes
    ELSE UNCHANGED <<localStorage, quotes>>

\* Array.prototype.findIndex(q => q.id === id), 0 for -1
findIndex(qs, id) ==
    IF \E i \in 1..Len(qs) : qs[i].id = id
    THEN CHOOSE i \in 1..Len(qs) : qs[i].id = id /\ \A j \in 1..(i - 1) : qs[j].id # id
    ELSE 0

\* a variant that appends whether or not the id is already stored
handleSaveQuote_alwaysAppend(q, stored) ==
    /\ saveQuotesToLocalStorage(Append(quotes, q), stored)
    /\ view' = "list"
    /\ selectedQuote' = Null

\* a variant that puts a new record first
handleSaveQuote_prepend(q, stored) ==
    LET existingIndex == findIndex(quotes, q.id)
        updatedQuotes == IF existingIndex > 0
                         THEN [quotes EXCEPT ![existingIndex] = q]
                         ELSE <<q>> \o quotes
    IN  /\ saveQuotesToLocalStorage(updatedQuotes, stored)
        /\ view' = "list"
        /\ selectedQuote' = Null

handleSaveQuote(q, stored) ==
    LET existingIndex == findIndex(quotes, q.id)
        updatedQuotes == IF existingIndex > 0
                         THEN [quotes EXCEPT ![existingIndex] = q]
                         ELSE Append(quotes, q)
    IN  /\ saveQuotesToLocalStorage(updatedQuotes, stored)
        /\ view' = "list"
        /\ selectedQuote' = Null

\* the QuotationForm mounted with initialData (part_002 52-71)
newDraft ==
    [id |-> nextId + 1,
     quoteNumber |-> generateQuoteNumber(quotes),
     date |-> isoDate,
     customerName |-> "",
     lineItems |-> <<[emptyLineItem EXCEPT !.description = "E.g.", !.unitAmount = Whole(0)]>>,
     discount |-> Whole(0),
     taxRate |-> IF Get(companyDetails, "defaultTaxRate") # Undefined
                 THEN companyDetails.defaultTaxRate ELSE Whole(18)]

handleCreateNew ==
    /\ ListShown
    /\ nextId < MaxIds
    /\ selectedQuote' = Null
    /\ view' = "form"
    /\ quote' = newDraft
    /\ itemRef' = <<0>>
    /\ showPreview' = FALSE
    /\ nextId' = nextId + 1
    /\ UNCHANGED <<quotes, isSettingsOpen, companyDetails, isAuthenticated, isAppReady,
                   modalState, loginState, localStorage, sessionStorage, today>>

handleEditQuote(id) ==
    /\ ListShown
    /\ LET i == findIndex(quotes, id)
       IN  /\ i > 0
           /\ selectedQuote' = quotes[i]
           /\ view' = "form"
           /\ quote' = quotes[i]
           /\ itemRef' = [j \in 1..Len(quotes[i].lineItems) |-> j]
           /\ showPreview' = FALSE
    /\ UNCHANGED <<quotes, isSettingsOpen, companyDetails, isAuthenticated, isAppReady,
                   modalState, loginState, localStorage, sessionStorage, environment>>

\* a variant that removes by quote number
withoutId_byNumber(qs, id) ==
    SelectSeq(qs, LAMBDA q : \A i \in 1..Len(qs) :
                                qs[i].id = id => q.quoteNumber # qs[i].quoteNumber)

\* quotes.filter(q => q.id !== id)
withoutId(qs, id) == SelectSeq(qs, LAMBDA q : q.id # id)

handleDeleteQuote(id, confirmed, stored) ==
    /\ ListShown
    /\ \E i \in 1..Len(quotes) : quotes[i].id = id
    /\ IF confirmed
       THEN saveQuotesToLocalStorage(withoutId(quotes, id), stored)
       ELSE UNCHANGED <<localStorage, quotes>>
    /\ UNCHANGED <<view, selectedQuote, isSettingsOpen, companyDetails, isAuthenticated,
                   isAppReady, formState, modalState, loginState, sessionStorage,
                   environment>>

handleViewList ==
    /\ FormShown
    /\ selectedQuote' = Null
    /\ view' = "list"
    /\ quote' = NoForm /\ itemRef' = <<>> /\ showPreview' = FALSE
    /\ UNCHANGED <<quotes, isSettingsOpen, companyDetails, isAuthenticated, isAppReady,
                   modalState, loginState, localStorage, sessionStorage, environment>>

\* onCancel={() => setView('list')}
onCancel ==
    /\ FormShown
    /\ view' = "list"
    /\ quote' = NoForm /\ itemRef' = <<>> /\ showPreview' = FALSE
    /\ UNCHANGED <<quotes, selectedQuote, isSettingsOpen, companyDetails, isAuthenticated,
                   isAppReady, modalState, loginState, localStorage, sessionStorage,
                   environment>>

---------------------------------------------------------------------------
(* QuotationForm (src/unnamed/part_002 51-307). *)

formFrame == <<view, isSettingsOpen, companyDetails, isAuthenticated, isAppReady,
               modalState, loginState, localStorage, sessionStorage, environment>>

\* a variant that issues a fresh number when the date is changed
QuotationForm_handleChange_renumber(name, value) ==
    /\ FormShown
    /\ quote' = IF name = "date"
                THEN [quote EXCEPT ![name] = value,
                                   !.quoteNumber = generateQuoteNumber(quotes)]
                ELSE [quote EXCEPT ![name] = value]
    /\ UNCHANGED <<formFrame, quotes, selectedQuote, itemRef, showPreview>>

QuotationForm_handleChange(name, value) ==
    /\ FormShown
    /\ quote' = [quote EXCEPT ![name] = value]
    /\ UNCHANGED <<formFrame, quotes, selectedQuote, itemRef, showPreview>>

QuotationForm_handleNumericChange(name, value) ==
    /\ FormShown
    /\ quote' = [quote EXCEPT ![name] = IF value = EmptyString THEN EmptyString
                                        ELSE parseFloat(value)]
    /\ UNCHANGED <<formFrame, quotes, selectedQuote, itemRef, showPreview>>

\* item[field] = ... writes into the LineItem object itself: [...quote.lineItems]
\* copies the array, not its elements.  An element the draft took over from
\* initialData is the object selectedQuote and the quotes collection hold.
handleLineItemChange(index, field, value) ==
    /\ FormShown
    /\ index \in 1..Len(quote.lineItems)
    /\ LET new == IF field \in {"quantity", "unitAmount"}
                  THEN (IF value = EmptyString THEN Whole(0) ELSE Number(value))
                  ELSE value
           j == itemRef[index]
           k == IF selectedQuote = Null THEN 0 ELSE findIndex(quotes, selectedQuote.id)
       IN  /\ quote' = [quote EXCEPT !.lineItems[index][field] = new]
           /\ IF j > 0
              THEN /\ selectedQuote' = [selectedQuote EXCEPT !.lineItems[j][field] = new]
                   /\ quotes' = IF k > 0
                                THEN [quotes EXCEPT ![k].lineItems[j][field] = new]
                                ELSE quotes
              ELSE UNCHANGED <<selectedQuote, quotes>>
    /\ UNCHANGED <<formFrame, itemRef, showPreview>>

addLineItem ==
    /\ FormShown
    /\ Len(quote.lineItems) < MaxItems
    /\ quote' = [quote EXCEPT !.lineItems = Append(@, emptyLineItem)]
    /\ itemRef' = Append(itemRef, 0)
    /\ UNCHANGED <<formFrame, quotes, selectedQuote, showPreview>>

\* Array.prototype.filter((_, i) => i !== index)
without(seq, index) == [i \in 1..(Len(seq) - 1) |-> IF i < index THEN seq[i] ELSE seq[i + 1]]

\* a variant without the "keep at least one line" return
removeLineItem_noGuard(index) ==
    /\ FormShown
    /\ index \in 1..Len(quote.lineItems)
    /\ quote' = [quote EXCEPT !.lineItems = without(@, index)]
    /\ itemRef' = without(itemRef, index)
    /\ UNCHANGED <<formFrame, quotes, selectedQuote, showPreview>>

removeLineItem(index) ==
    /\ FormShown
    /\ index \in 1..Len(quote.lineItems)
    /\ IF Len(quote.lineItems) <= 1
       THEN UNCHANGED <<quote, itemRef>>
       ELSE /\ quote' = [quote EXCEPT !.lineItems = without(@, index)]
            /\ itemRef' = without(itemRef, index)
    /\ UNCHANGED <<formFrame, quotes, selectedQuote, showPreview>>

\* setShowPreview(true) / setShowPreview(false): QuotationPreview is rendered
setShowPreview(shown) ==
    /\ MainShown /\ view = "form" /\ ~isSettingsOpen
    /\ showPreview # shown
    /\ showPreview' = shown
    /\ UNCHANGED <<formFrame, quotes, selectedQuote, quote, itemRef>>

\* the constraint validation of the form's inputs, which a submit has to pass:
\* required, min and step (part_002 184, 191, 201, 205, 209, 240, 245)
AtLeast(v, n) == ~Gt(Whole(n), v)
stepOf(v, perUnit) == perUnit % v.d = 0
FormValid(q) ==
    /\ q.customerName # ""
    /\ \A i \in 1..Len(q.lineItems) :
          /\ q.lineItems[i].description # ""
          /\ AtLeast(q.lineItems[i].quantity, 1) /\ stepOf(q.lineItems[i].quantity, 1)
          /\ AtLeast(q.lineItems[i].unitAmount, 0) /\ stepOf(q.lineItems[i].unitAmount, 100)
    /\ IF q.discount = EmptyString THEN TRUE
       ELSE AtLeast(q.discount, 0) /\ stepOf(q.discount, 100)
    /\ IF q.taxRate = EmptyString THEN TRUE
       ELSE AtLeast(q.taxRate, 0) /\ stepOf(q.taxRate, 1)

QuotationForm_handleSubmit(stored) ==
    /\ FormShown
    /\ FormValid(quote)
    /\ handleSaveQuote(quote, stored)
    /\ quote' = NoForm /\ itemRef' = <<>> /\ showPreview' = FALSE
    /\ UNCHANGED <<isSettingsOpen, companyDetails, isAuthenticated, isAppReady,
                   modalState, loginState, sessionStorage, environment>>

---------------------------------------------------------------------------
(* SettingsModal (src/unnamed/part_002 330-520) and handleSaveSettings. *)

ModalShown == MainShown /\ isSettingsOpen

modalFrame == <<view, quotes, selectedQuote, isAuthenticated, isAppReady, formState,
                loginState, sessionStorage, environment>>

\* { ...prev, [name]: value }
setField(obj, name, value) ==
    [f \in DOMAIN obj \cup {name} |-> IF f = name THEN value ELSE obj[f]]

\* delete obj[name]
deleteField(obj, name) == [f \in DOMAIN obj \ {name} |-> obj[f]]

\* the modal is unmounted ({isSettingsOpen && <SettingsModal .../>}): the reads
\* it started go on, their onloadend holding the setter of a component that is gone
unmounted(rs) == {[r EXCEPT !.mounted = FALSE] : r \in rs}

\* onOpenSettings={() => setIsSettingsOpen(true)}: the modal mounts with details
onOpenSettings ==
    /\ MainShown /\ ~isSettingsOpen /\ ~showPreview
    /\ isSettingsOpen' = TRUE
    /\ currentDetails' = companyDetails
    /\ UNCHANGED <<modalFrame, companyDetails, localStorage, readers>>

onClose ==
    /\ ModalShown
    /\ isSettingsOpen' = FALSE
    /\ currentDetails' = NoModal
    /\ readers' = unmounted(readers)
    /\ UNCHANGED <<modalFrame, companyDetails, localStorage>>

SettingsModal_handleChange(name, value) ==
    /\ ModalShown
    /\ currentDetails' = setField(currentDetails, name, value)
    /\ UNCHANGED <<modalFrame, isSettingsOpen, companyDetails, localStorage, readers>>

SettingsModal_handleNumericChange(name, value) ==
    /\ ModalShown
    /\ currentDetails' = setField(currentDetails, name,
                                  IF value = EmptyString THEN Undefined ELSE parseFloat(value))
    /\ UNCHANGED <<modalFrame, isSettingsOpen, companyDetails, localStorage, readers>>

\* reader.readAsDataURL(file) delivers the file's bytes as a data: URL
readAsDataURL(file) ==
    Str(CASE file = "a.png" -> "data:image/png;base64,YQ=="
          [] file = "b.png" -> "data:image/png;base64,Yg==")

\* the read is started and the handler returns; the draft is not touched yet
handleQrCodeUpload(file) ==
    /\ ModalShown
    /\ LET reader == [mounted |-> TRUE, result |-> readAsDataURL(file)]
       IN  /\ reader \notin readers
           /\ readers' = readers \cup {reader}
    /\ UNCHANGED <<modalFrame, isSettingsOpen, companyDetails, localStorage, currentDetails>>

\* a variant whose completion replaces the draft by the details the modal was
\* opened with, plus the image
onloadend_staleDraft(reader) ==
    /\ reader \in readers
    /\ readers' = readers \ {reader}
    /\ IF reader.mounted
       THEN currentDetails' = setField(companyDetails, "upiQrCode", reader.result)
       ELSE UNCHANGED currentDetails
    /\ UNCHANGED <<modalFrame, isSettingsOpen, companyDetails, localStorage>>

\* reader.onloadend: setCurrentDetails(prev => ({ ...prev, upiQrCode: reader.result })),
\* at whatever time the read ends.  The setter of an unmounted component
\* changes nothing.
onloadend(reader) ==
    /\ reader \in readers
    /\ readers' = readers \ {reader}
    /\ IF reader.mounted
       THEN currentDetails' = setField(currentDetails, "upiQrCode", reader.result)
       ELSE UNCHANGED currentDetails
    /\ UNCHANGED <<modalFrame, isSettingsOpen, companyDetails, localStorage>>

\* a variant that saves the settings with the password they had before
handleSaveSettings_keepsOldPassword(details, stored) ==
    LET kept == IF passwordIsSet(companyDetails)
                THEN setField(details, "password", companyDetails.password)
                ELSE deleteField(details, "password")
    IN  IF stored
        THEN /\ localStorage' = [localStorage EXCEPT
                                   !.companyDetails = Json(stringifyObject(kept))]
             /\ companyDetails' = kept
             /\ isSettingsOpen' = FALSE
             /\ currentDetails' = NoModal
             /\ readers' = unmounted(readers)
        ELSE UNCHANGED <<localStorage, companyDetails, isSettingsOpen, modalState>>

handleSaveSettings(details, stored) ==
    LET detailsToSave == IF ~passwordIsSet(details) THEN deleteField(details, "password")
                         ELSE details
    IN  IF stored
        THEN /\ localStorage' = [localStorage EXCEPT
                                   !.companyDetails = Json(stringifyObject(detailsToSave))]
             /\ companyDetails' = detailsToSave
             /\ isSettingsOpen' = FALSE
             /\ currentDetails' = NoModal
             /\ readers' = unmounted(readers)
        ELSE UNCHANGED <<localStorage, companyDetails, isSettingsOpen, modalState>>

SettingsModal_handleSubmit(stored) ==
    /\ ModalShown
    /\ handleSaveSettings(currentDetails, stored)
    /\ UNCHANGED modalFrame

---------------------------------------------------------------------------
(* LoginScreen (src/components/LoginScreen.tsx) and the session gate. *)

gateFrame == <<view, quotes, selectedQuote, isSettingsOpen, companyDetails, isAppReady,
               formState, modalState, localStorage, environment>>

\* onChange={(e) => setPassword(e.target.value)}
setPassword(value) ==
    /\ LoginShown
    /\ password' = value
    /\ UNCHANGED <<gateFrame, isAuthenticated, sessionStorage, error>>

\* a variant that forgets the session marker
handleLoginSuccess_noMarker ==
    /\ isAuthenticated' = TRUE
    /\ UNCHANGED sessionStorage

handleLoginSuccess ==
    /\ sessionStorage' = [sessionStorage EXCEPT !.isAuthenticated = TRUE]
    /\ isAuthenticated' = TRUE

\* String.prototype.toLowerCase on the passwords that are typed
toLowerCase(s) == IF s = "ABC" THEN "abc" ELSE s

\* a variant that compares without regard to case
LoginScreen_handleSubmit_ignoreCase ==
    /\ LoginShown
    /\ password # ""
    /\ IF Str(toLowerCase(password)) = Get(companyDetails, "password")
       THEN /\ handleLoginSuccess
            /\ password' = "" /\ error' = ""
       ELSE /\ error' = "Incorrect password. Please try again."
            /\ password' = ""
            /\ UNCHANGED <<isAuthenticated, sessionStorage>>
    /\ UNCHANGED gateFrame

\* a variant that refuses every submission after a failed one
LoginScreen_handleSubmit_lockout ==
    /\ LoginShown
    /\ password # ""
    /\ error = ""
    /\ IF Str(password) = Get(companyDetails, "password")
       THEN /\ handleLoginSuccess
            /\ password' = "" /\ error' = ""
       ELSE /\ error' = "Incorrect password. Please try again."
            /\ password' = ""
            /\ UNCHANGED <<isAuthenticated, sessionStorage>>
    /\ UNCHANGED gateFrame

\* the input is required: an empty password is not submitted.  A successful
\* login unmounts the LoginScreen, and its state with it.
LoginScreen_handleSubmit ==
    /\ LoginShown
    /\ password # ""
    /\ IF Str(password) = Get(companyDetails, "password")
       THEN /\ handleLoginSuccess
            /\ password' = "" /\ error' = ""
       ELSE /\ error' = "Incorrect password. Please try again."
            /\ password' = ""
            /\ UNCHANGED <<isAuthenticated, sessionStorage>>
    /\ UNCHANGED gateFrame

\* the Header receives isPasswordSet and onLogout (QuotationPreview.tsx 293-294)
\* and offers the logout only when a password is set
logoutShown == passwordIsSet(companyDetails)

\* a variant that leaves the session marker in place
handleLogout_keepsMarker(confirmed) ==
    /\ MainShown /\ ~isSettingsOpen /\ ~showPreview
    /\ logoutShown
    /\ IF confirmed
       THEN /\ isAuthenticated' = FALSE
            /\ UNCHANGED sessionStorage
       ELSE UNCHANGED <<sessionStorage, isAuthenticated>>
    /\ UNCHANGED <<gateFrame, loginState>>

handleLogout(confirmed) ==
    /\ MainShown /\ ~isSettingsOpen /\ ~showPreview
    /\ logoutShown
    /\ IF confirmed
       THEN /\ sessionStorage' = [sessionStorage EXCEPT !.isAuthenticated = FALSE]
            /\ isAuthenticated' = FALSE
       ELSE UNCHANGED <<sessionStorage, isAuthenticated>>
    /\ UNCHANGED <<gateFrame, loginState>>

---------------------------------------------------------------------------
(* The environment: the page is reloaded, the session ends, the clock moves *)
(* on, and a stored record is damaged while the page is not running.        *)

\* the page is loaded anew: every component state is constructed again; the
\* session storage survives a reload and is cleared when the session ends
Reload(sessionKept) ==
    /\ isAppReady
    /\ view' = "list"
    /\ quotes' = <<>>
    /\ selectedQuote' = Null
    /\ isSettingsOpen' = FALSE
    /\ companyDetails' = defaultCompanyDetails
    /\ isAuthenticated' = FALSE
    /\ isAppReady' = FALSE
    /\ quote' = NoForm /\ itemRef' = <<>> /\ showPreview' = FALSE
    /\ currentDetails' = NoModal
    /\ readers' = {}
    /\ password' = "" /\ error' = ""
    /\ sessionStorage' = IF sessionKept THEN sessionStorage
                         ELSE [sessionStorage EXCEPT !.isAuthenticated = FALSE]
    /\ UNCHANGED <<localStorage, environment>>

NextDay ==
    /\ today < MaxDays
    /\ today' = today + 1
    /\ UNCHANGED <<appState, formState, modalState, loginState, localStorage,
                   sessionStorage, nextId>>

\* the text under a key becomes unparseable
StorageDamaged(key) ==
    /\ ~isAppReady
    /\ localStorage[key] # Corrupt
    /\ localStorage' = [localStorage EXCEPT ![key] = Corrupt]
    /\ UNCHANGED <<appState, formState, modalState, loginState, sessionStorage,
                   environment>>

---------------------------------------------------------------------------
(* The inputs an operator may give. *)

CustomerNames == {"", "A"}
QuoteDates == {1, 2}
DiscountTexts == {EmptyString, NumText(1, 2)}
ItemTexts == {NumText(2, 1)}
SettingsPasswords == {EmptyString, Str("abc"), Str("ABC")}
TypedPasswords == {"abc", "ABC"}
StorageKeys == {"tyreQuotes", "companyDetails"}

---------------------------------------------------------------------------
(* The quote collection's life: the list, the form, the store, the clock.  *)
(* No password is ever set, so the gate stays open.                        *)

QuoteNext ==
    \/ Startup
    \/ \E sessionKept \in BOOLEAN : Reload(sessionKept)
    \/ NextDay
    \/ \E key \in StorageKeys : StorageDamaged(key)
    \/ handleCreateNew
    \/ \E id \in 1..MaxIds : handleEditQuote(id)
    \/ \E id \in 1..MaxIds, confirmed, stored \in BOOLEAN :
          handleDeleteQuote(id, confirmed, stored)
    \/ handleViewList
    \/ onCancel
    \/ \E value \in CustomerNames : QuotationForm_handleChange("customerName", value)
    \/ \E value \in QuoteDates : QuotationForm_handleChange("date", value)
    \/ \E stored \in BOOLEAN : QuotationForm_handleSubmit(stored)

QuoteSpec == Init /\ [][QuoteNext]_vars

---------------------------------------------------------------------------
(* The session gate: startup, settings, login, logout, reload.  The quote  *)
(* collection is not edited; the store may hold one from earlier use.      *)

\* a quote as the form saves it on the first day
savedQuote == [newDraft EXCEPT !.customerName = "A"]

GateInit ==
    /\ today = 1
    /\ Constructed
    /\ sessionStorage = [isAuthenticated |-> FALSE]
    /\ \E stored \in BOOLEAN :
          /\ nextId = IF stored THEN 1 ELSE 0
          /\ \E emptyPassword \in BOOLEAN :
                localStorage =
                    [tyreQuotes |-> IF stored
                                    THEN Json(<<[savedQuote EXCEPT !.id = 1]>>) ELSE Null,
                     companyDetails |-> IF emptyPassword
                                        THEN Json(setField(defaultCompanyDetails, "password", EmptyString))
                                        ELSE Null]

GateNext ==
    \/ Startup
    \/ \E sessionKept \in BOOLEAN : Reload(sessionKept)
    \/ \E key \in StorageKeys : StorageDamaged(key)
    \/ onOpenSettings
    \/ onClose
    \/ \E value \in SettingsPasswords : SettingsModal_handleChange("password", value)
    \/ \E stored \in BOOLEAN : SettingsModal_handleSubmit(stored)
    \/ \E value \in TypedPasswords : setPassword(value)
    \/ LoginScreen_handleSubmit
    \/ \E confirmed \in BOOLEAN : handleLogout(confirmed)

GateSpec == GateInit /\ [][GateNext]_vars

---------------------------------------------------------------------------
(* The gate in front of the quote collection: the gate's operations and the *)
(* list and form operations together, from what the store may hold.         *)

QuoteOperations ==
    \/ handleCreateNew
    \/ \E id \in 1..MaxIds : handleEditQuote(id)
    \/ \E id \in 1..MaxIds, confirmed, stored \in BOOLEAN :
          handleDeleteQuote(id, confirmed, stored)
    \/ handleViewList
    \/ onCancel
    \/ \E value \in CustomerNames : QuotationForm_handleChange("customerName", value)
    \/ \E stored \in BOOLEAN : QuotationForm_handleSubmit(stored)

GateOperations ==
    \/ onOpenSettings
    \/ onClose
    \/ \E value \in SettingsPasswords : SettingsModal_handleChange("password", value)
    \/ \E stored \in BOOLEAN : SettingsModal_handleSubmit(stored)
    \/ \E value \in TypedPasswords : setPassword(value)
    \/ LoginScreen_handleSubmit
    \/ \E confirmed \in BOOLEAN : handleLogout(confirmed)

GuardNext ==
    \/ Startup
    \/ \E sessionKept \in BOOLEAN : Reload(sessionKept)
    \/ \E key \in StorageKeys : StorageDamaged(key)
    \/ GateOperations
    \/ QuoteOperations

GuardSpec == GateInit /\ [][GuardNext]_vars

\* one process from its start to its end: the page is never reloaded
ProcessNext ==
    \/ Startup
    \/ \E key \in StorageKeys : StorageDamaged(key)
    \/ GateOperations
    \/ QuoteOperations

ProcessSpec == GateInit /\ [][ProcessNext]_vars

---------------------------------------------------------------------------
(* The calculator: a new draft in the form, its numbers edited.            *)

CalcQuantities == {Whole(1), Whole(2)}
CalcAmounts == {Whole(0), Num(1, 2), Num(5, 4)}
CalcDiscounts == {EmptyString, Whole(0), Num(1, 2), Whole(4)}
CalcTaxRates == {EmptyString, Whole(-5), Whole(0), Whole(18)}

\* the text an input shows for a value
textOf(v) == IF IsNumber(v) THEN NumText(v.n, v.d) ELSE EmptyString

CalcItems == {[emptyLineItem EXCEPT !.description = "E.g.", !.quantity = q, !.unitAmount = a] :
                 q \in CalcQuantities, a \in CalcAmounts}

RECURSIVE SeqsUpTo(_, _)
SeqsUpTo(S, n) ==
    IF n = 0 THEN {<<>>}
    ELSE LET shorter == SeqsUpTo(S, n - 1)
         IN  shorter \cup {Append(sq, x) : sq \in shorter, x \in S}

CalcInit ==
    /\ today = 1
    /\ localStorage = [tyreQuotes |-> Null, companyDetails |-> Null]
    /\ sessionStorage = [isAuthenticated |-> FALSE]
    /\ nextId = 1
    /\ view = "form"
    /\ quotes = <<>>
    /\ selectedQuote = Null
    /\ isSettingsOpen = FALSE
    /\ companyDetails = defaultCompanyDetails
    /\ isAuthenticated = TRUE
    /\ isAppReady = TRUE
    /\ showPreview = FALSE
    /\ currentDetails = NoModal
    /\ readers = {}
    /\ password = "" /\ error = ""
    /\ \E items \in SeqsUpTo(CalcItems, MaxItems) \ {<<>>},
          discount \in CalcDiscounts, taxRate \in CalcTaxRates :
          /\ quote = [id |-> 1, quoteNumber |-> generateQuoteNumber(<<>>), date |-> 1,
                      customerName |-> "", lineItems |-> items,
                      discount |-> discount, taxRate |-> taxRate]
          /\ itemRef = [i \in 1..Len(items) |-> 0]

CalcNext ==
    \/ \E value \in CalcDiscounts :
          QuotationForm_handleNumericChange("discount", textOf(value))
    \/ \E value \in CalcTaxRates :
          QuotationForm_handleNumericChange("taxRate", textOf(value))
    \/ \E index \in 1..MaxItems, value \in CalcQuantities :
          handleLineItemChange(index, "quantity", textOf(value))
    \/ \E index \in 1..MaxItems, value \in CalcAmounts :
          handleLineItemChange(index, "unitAmount", textOf(value))
    \/ addLineItem
    \/ \E index \in 1..MaxItems : removeLineItem(index)
    \/ \E shown \in BOOLEAN : setShowPreview(shown)

CalcSpec == CalcInit /\ [][CalcNext]_vars

---------------------------------------------------------------------------
(* The settings: the details are edited in the modal, a QR image is read   *)
(* while the operator goes on, the details are saved and loaded again.     *)

CompanyNames == {Str("B")}
TaxRateTexts == {EmptyString, NumText(5, 1)}
QrFiles == {"a.png", "b.png"}
Readers == [mounted : BOOLEAN, result : {readAsDataURL(file) : file \in QrFiles}]

SettingsNext ==
    \/ Startup
    \/ \E sessionKept \in BOOLEAN : Reload(sessionKept)
    \/ \E key \in StorageKeys : StorageDamaged(key)
    \/ onOpenSettings
    \/ onClose
    \/ \E value \in CompanyNames : SettingsModal_handleChange("name", value)
    \/ \E value \in TaxRateTexts : SettingsModal_handleNumericChange("defaultTaxRate", value)
    \/ \E file \in QrFiles : handleQrCodeUpload(file)
    \/ \E reader \in Readers : onloadend(reader)
    \/ \E stored \in BOOLEAN : SettingsModal_handleSubmit(stored)

SettingsSpec == Init /\ [][SettingsNext]_vars

---------------------------------------------------------------------------
(* Editing what the store holds: one quote was saved earlier; it is opened *)
(* in the form, its fields and line items are changed, and the form is     *)
(* left by Cancel or by Save, with writes that succeed or fail.            *)

\* a cleared discount field
ClearedTexts == {EmptyString}

\* the quote saved earlier, with two line items
storedQuote ==
    [savedQuote EXCEPT !.id = 1,
                       !.lineItems = <<savedQuote.lineItems[1], savedQuote.lineItems[1]>>]

EditInit ==
    /\ today = 1
    /\ Constructed
    /\ sessionStorage = [isAuthenticated |-> FALSE]
    /\ nextId = MaxIds - 1    \* one more quote can be created
    /\ localStorage = [tyreQuotes |-> Json(<<storedQuote>>),
                       companyDetails |-> Null]

EditNext ==
    \/ Startup
    \/ handleCreateNew
    \/ \E id \in 1..MaxIds : handleEditQuote(id)
    \/ \E id \in 1..MaxIds, confirmed, stored \in BOOLEAN :
          handleDeleteQuote(id, confirmed, stored)
    \/ onCancel
    \/ \E value \in CustomerNames : QuotationForm_handleChange("customerName", value)
    \/ \E value \in ClearedTexts : QuotationForm_handleNumericChange("discount", value)
    \/ \E index \in 1..MaxItems, value \in ItemTexts :
          handleLineItemChange(index, "quantity", value)
    \/ addLineItem
    \/ \E index \in 1..MaxItems : removeLineItem(index)
    \/ \E stored \in BOOLEAN : QuotationForm_handleSubmit(stored)

EditSpec == EditInit /\ [][EditNext]_vars

---------------------------------------------------------------------------
(* The whole application. *)

Next ==
    \/ QuoteNext
    \/ GateNext
    \/ \E value \in DiscountTexts : QuotationForm_handleNumericChange("discount", value)
    \/ \E index \in 1..MaxItems, value \in ItemTexts :
          handleLineItemChange(index, "quantity", value)
    \/ addLineItem
    \/ \E index \in 1..MaxItems : removeLineItem(index)
    \/ \E shown \in BOOLEAN : setShowPreview(shown)
    \/ \E value \in CompanyNames : SettingsModal_handleChange("name", value)
    \/ \E value \in TaxRateTexts : SettingsModal_handleNumericChange("defaultTaxRate", value)
    \/ \E file \in QrFiles : handleQrCodeUpload(file)
    \/ \E reader \in Readers : onloadend(reader)

Spec == Init /\ [][Next]_vars

---------------------------------------------------------------------------
(* The claims about the calculator, checked under CalcSpec. *)

\* the sum of the line totals, taken from the last item to the first
RECURSIVE GrossFrom(_, _)
GrossFrom(items, i) ==
    IF i > Len(items) THEN Whole(0)
    ELSE Add(Mul(items[i].quantity, items[i].unitAmount), GrossFrom(items, i + 1))

DraftGross == GrossFrom(quote.lineItems, 1)
FormTotals == QuotationForm_totals(quote)
PreviewTotals == QuotationPreview_totals(quote)

\* g is an integer nearest to x
NearestInteger(g, x) ==
    /\ g.d = 1
    /\ 2 * Abs(g.n * x.d - x.n) <= x.d

RoundsDiscounted(t) ==
    LET x == Sub(DraftGross, quote.discount)
    IN  /\ NearestInteger(t.grandTotal, x)
        /\ t.roundOff = Sub(t.grandTotal, x)

\* C1: for every sequence of line items and every discount D >= 0, also one
\* greater than the gross total, the form and the preview show a grand total
\* that is the integer nearest to grossTotal - D (negative when D is the
\* greater, never clamped), and a roundOff equal to grandTotal - (grossTotal - D).
C1_GrandTotalRounded ==
    (IsNumber(quote.discount) /\ AtLeast(quote.discount, 0))
        => (RoundsDiscounted(FormTotals) /\ RoundsDiscounted(PreviewTotals))

\* a discount above the gross total: the grand total is negative and the
\* rounding adjustment is not zero
C1_Witness ==
    /\ IsNumber(quote.discount) /\ Gt(quote.discount, DraftGross)
    /\ FormTotals.grandTotal.n < 0
    /\ FormTotals.roundOff # Whole(0)

BacksOutTax(t) ==
    IF IsNumber(quote.taxRate) /\ Gt(quote.taxRate, Whole(0))
    THEN Mul(t.subtotal, Add(Whole(1), Div(quote.taxRate, Whole(100)))) = DraftGross
    ELSE t.subtotal = DraftGross /\ t.totalTax = Whole(0)

\* C2: for a tax rate R > 0 the subtotal times (1 + R/100) is the gross total;
\* for R = 0, and any R that is not above 0, the subtotal is the gross total
\* and the tax is 0.
C2_SubtotalBacksOutTax == BacksOutTax(FormTotals) /\ BacksOutTax(PreviewTotals)

C2_Witness ==
    /\ quote.taxRate = Whole(18)
    /\ Gt(DraftGross, Whole(0))
    /\ FormTotals.subtotal # DraftGross
    /\ showPreview

Reconciles(t) ==
    Add(Sub(Add(t.subtotal, t.totalTax), quote.discount), t.roundOff) = t.grandTotal

OnlyDiscountChanges ==
    /\ quote'.discount # quote.discount
    /\ quote'.lineItems = quote.lineItems
    /\ quote'.taxRate = quote.taxRate

\* C3: the discount comes off the tax-inclusive gross total, never off the
\* subtotal: a step that changes only the discount leaves subtotal and totalTax
\* as they were, and in every state subtotal + totalTax - discount + roundOff
\* is the grand total.
C3_DiscountOffGross ==
    /\ [](Reconciles(FormTotals) /\ Reconciles(PreviewTotals))
    /\ [][OnlyDiscountChanges =>
             /\ QuotationForm_totals(quote').subtotal = FormTotals.subtotal
             /\ QuotationForm_totals(quote').totalTax = FormTotals.totalTax
             /\ QuotationPreview_totals(quote').subtotal = PreviewTotals.subtotal
             /\ QuotationPreview_totals(quote').totalTax = PreviewTotals.totalTax]_vars

\* a discount and a tax are both in play
C3_Witness ==
    /\ IsNumber(quote.discount) /\ Gt(quote.discount, Whole(0))
    /\ IsNumber(quote.taxRate) /\ Gt(quote.taxRate, Whole(0))
    /\ Gt(FormTotals.totalTax, Whole(0))
    /\ FormTotals.roundOff # Whole(0)

\* C4: the edit screen, the preview and the list card compute the same totals
\* for a quotation: subtotal, totalTax, roundOff and grandTotal of the form are
\* those of the preview, and the card's grandTotal is the same again.
C4_ThreeScreensAgree ==
    /\ FormTotals = PreviewTotals
    /\ QuoteCard_grandTotal(quote) = FormTotals.grandTotal

\* the preview is open on a draft with a discount and a fractional total
C4_Witness ==
    /\ showPreview
    /\ Gt(quote.discount, Whole(0))
    /\ PreviewTotals.roundOff # Whole(0)

---------------------------------------------------------------------------
(* The claims about quote numbers, checked under QuoteSpec. *)

TwoDigits(n) == <<Digits[(n \div 10) + 1], Digits[(n % 10) + 1]>>
FourDigits(n) == TwoDigits(n \div 100) \o TwoDigits(n % 100)

\* QT-DDMMYY for the d-th day of the clock: the (8 + d)th of January 2025
PrefixOfDay(d) == <<"Q", "T", "-">> \o TwoDigits(8 + d) \o <<"0", "1", "2", "5">>

HasPrefix(q, p) == SubSeq(q.quoteNumber, 1, Len(p)) = p

\* how many quotes of qs carry the prefix p
CountWith(qs, p) == Cardinality({i \in 1..Len(qs) : HasPrefix(qs[i], p)})

\* C5: generateQuoteNumber, given a collection in which exactly k quote numbers
\* start with today's prefix QT-DDMMYY, returns QT-DDMMYY-NNNN with NNNN = k + 1
\* padded with zeros to four digits; quotes of another date are not counted.
C5_SerialIsCountPlusOne ==
    LET k == CountWith(quotes, PrefixOfDay(today))
    IN  generateQuoteNumber(quotes) = PrefixOfDay(today) \o <<"-">> \o FourDigits(k + 1)

\* a new draft numbered 0002 on a day with one quote, with a quote of another
\* day in the collection
C5_Witness ==
    /\ view = "form" /\ selectedQuote = Null /\ quote # NoForm
    /\ CountWith(quotes, PrefixOfDay(today)) = 1
    /\ Len(quotes) = 2
    /\ quote.quoteNumber = PrefixOfDay(today) \o <<"-", "0", "0", "0", "2">>

\* the collection the store holds, none when the key is absent or unreadable
StoredIn(storage) ==
    IF storage.tyreQuotes = Null THEN <<>>
    ELSE IF storage.tyreQuotes.json THEN storage.tyreQuotes.value ELSE <<>>

\* the serials of the quotes of qs that carry the prefix p, in stored order
SerialsOf(qs, p) ==
    LET sel == SelectSeq(qs, LAMBDA q : HasPrefix(q, p))
    IN  [i \in 1..Len(sel) |-> serialValue(sel[i].quoteNumber)]

\* for every day the serials are 1, 2, ... in order: no number twice, no gap
InOrder(qs) ==
    \A d \in 1..MaxDays :
        LET serials == SerialsOf(qs, PrefixOfDay(d))
        IN  \A i \in 1..Len(serials) : serials[i] = i

\* the operator confirms the deletion of a quote and the list loses it
DeleteStep ==
    /\ ListShown
    /\ isAppReady'
    /\ Len(quotes') = Len(quotes) - 1

\* C6: as long as no quote is deleted, creating drafts and saving them leaves
\* the quotes in memory and in the store with pairwise distinct numbers whose
\* serials, day by day, are 0001, 0002, ... in the order they were saved.
C6_SerialsInOrder ==
    /\ InOrder(quotes) /\ InOrder(StoredIn(localStorage))
    /\ [][(InOrder(quotes) /\ InOrder(StoredIn(localStorage)) /\ ~DeleteStep)
             => (InOrder(quotes') /\ InOrder(StoredIn(localStorage')))]_vars

\* three quotes of one day stored with the serials 1, 2, 3
C6_Witness ==
    /\ Len(StoredIn(localStorage)) = 3
    /\ CountWith(StoredIn(localStorage), PrefixOfDay(today)) = 3
    /\ InOrder(StoredIn(localStorage))
    /\ quotes = StoredIn(localStorage)

\* C7: the serial is the count of same-day quotes in memory, so uniqueness is
\* best effort: when a same-day quote other than the last issued is deleted
\* from a collection numbered in order, the number generated next is one that a
\* remaining quote already carries.
C7_DeleteThenCreateRepeats ==
    [][(/\ DeleteStep
        /\ InOrder(quotes)
        /\ \E i \in 1..Len(quotes) :
              /\ \A j \in 1..Len(quotes') : quotes'[j].id # quotes[i].id
              /\ HasPrefix(quotes[i], PrefixOfDay(today))
              /\ serialValue(quotes[i].quoteNumber) < CountWith(quotes, PrefixOfDay(today)))
         => \E j \in 1..Len(quotes') :
               quotes'[j].quoteNumber = generateQuoteNumber(quotes')]_vars

\* the store holds two quotes with one number
C7_Witness ==
    \E i, j \in 1..Len(StoredIn(localStorage)) :
        /\ i # j
        /\ StoredIn(localStorage)[i].id # StoredIn(localStorage)[j].id
        /\ StoredIn(localStorage)[i].quoteNumber = StoredIn(localStorage)[j].quoteNumber

SameIdentity(old, new) ==
    /\ Len(new) = Len(old)
    /\ \A i \in 1..Len(old) :
          new[i].id = old[i].id /\ new[i].quoteNumber = old[i].quoteNumber

\* the form is open on a stored quote
EditingStored ==
    /\ view = "form" /\ isAppReady /\ quote # NoForm /\ selectedQuote # Null

\* C8: the number is issued once, for a new draft.  While a stored quote is
\* edited, whatever fields change (its date too), the draft keeps the quote's
\* id and quoteNumber, and the save that ends the edit leaves every stored
\* quote, in memory and in the store, with the id and quoteNumber it had.
C8_EditKeepsIdentity ==
    /\ [](EditingStored => (quote.id = selectedQuote.id
                            /\ quote.quoteNumber = selectedQuote.quoteNumber))
    /\ [][(EditingStored /\ view' = "list" /\ isAppReady')
             => /\ SameIdentity(quotes, quotes')
                /\ SameIdentity(StoredIn(localStorage), StoredIn(localStorage'))]_vars

\* a quote numbered on an earlier day is open with its date changed
C8_Witness ==
    /\ EditingStored
    /\ quote.date # selectedQuote.date
    /\ ~HasPrefix(quote, PrefixOfDay(today))
    /\ quote.customerName # selectedQuote.customerName

---------------------------------------------------------------------------
(* The claims about the gate at startup, checked under GateSpec. *)

\* the persisted CompanyDetails hold a password that is not empty
PersistedPassword ==
    IF localStorage.companyDetails = Null THEN FALSE
    ELSE IF ~localStorage.companyDetails.json THEN FALSE
    ELSE passwordIsSet(localStorage.companyDetails.value)

SessionMarker == sessionStorage.isAuthenticated

\* the step in which startup completes
StartupCompletes == ~isAppReady /\ isAppReady'

\* C9 as stated: with a password in the persisted CompanyDetails and no session
\* marker the gate is Locked when startup completes, whatever the rest of the
\* store contains.
C9_LockedWhateverTheStore ==
    [][(StartupCompletes /\ PersistedPassword /\ ~SessionMarker)
          => ~isAuthenticated']_vars

\* C9, amended: with a password in the persisted CompanyDetails and no session
\* marker the gate is Locked when startup completes, provided the stored quote
\* collection is absent or parses; when it does not parse, startup fails open
\* and the gate is Unlocked.
C9_LockedUnlessUnreadable ==
    [][(StartupCompletes /\ PersistedPassword /\ ~SessionMarker)
          => (isAuthenticated' <=> parseThrows(localStorage.tyreQuotes))]_vars

\* the login screen is up after a startup that found a password, no marker and
\* a stored quote collection
C9_Witness ==
    /\ LoginShown
    /\ PersistedPassword /\ ~SessionMarker
    /\ localStorage.tyreQuotes # Null /\ ~parseThrows(localStorage.tyreQuotes)
    /\ password = "" /\ error = ""

\* C10: with no password configured, absent or empty, the gate is Unlocked when
\* startup completes, whether or not a session marker exists.
C10_OpenWithoutPassword ==
    [][(StartupCompletes /\ ~PersistedPassword) => isAuthenticated']_vars

\* the application is open with a session marker left from an earlier login
\* and persisted CompanyDetails that hold no password
C10_Witness ==
    /\ MainShown
    /\ SessionMarker
    /\ localStorage.companyDetails # Null /\ ~parseThrows(localStorage.companyDetails)
    /\ ~PersistedPassword
    /\ ~passwordIsSet(companyDetails)

---------------------------------------------------------------------------
(* The claims about login, logout and the settings, checked under GateSpec. *)

\* the password the persisted CompanyDetails hold, undefined when they hold none
ConfiguredPassword ==
    IF PersistedPassword THEN localStorage.companyDetails.value.password ELSE Undefined

\* a submission of the login form: the typed password leaves the input while
\* the page stays loaded
SubmitStep == LoginShown /\ isAppReady' /\ password # "" /\ password' = ""

\* C11: the gate goes from Locked to Unlocked only by a submission whose input
\* is exactly the configured password (case matters, nothing is normalised);
\* every other submission leaves the gate Locked, sets no session marker,
\* clears the input and sets an error message.
C11_ExactPasswordUnlocks ==
    /\ [][(LoginShown /\ isAppReady' /\ isAuthenticated')
             => (SubmitStep /\ Str(password) = ConfiguredPassword)]_vars
    /\ [][(SubmitStep /\ Str(password) # ConfiguredPassword)
             => /\ ~isAuthenticated'
                /\ sessionStorage' = sessionStorage /\ ~SessionMarker
                /\ password' = ""
                /\ error' # ""]_vars

\* a wrong password was submitted: the login screen shows the error over an
\* empty input, and no marker is set
C11_Witness ==
    /\ LoginShown
    /\ error # "" /\ password = ""
    /\ ~SessionMarker
    /\ PersistedPassword

\* the submission that unlocks
UnlockingSubmit ==
    /\ LoginScreen_handleSubmit
    /\ isAuthenticated'

PasswordIn(storage) ==
    IF storage.companyDetails = Null THEN Undefined
    ELSE IF ~storage.companyDetails.json THEN Undefined
    ELSE IF passwordIsSet(storage.companyDetails.value)
         THEN storage.companyDetails.value.password ELSE Undefined

\* C13: a successful login sets the session marker, and every later startup
\* that finds the marker and a configured password ends Unlocked: the login
\* screen is not shown again within the session.
C13_MarkerSkipsPrompt ==
    /\ [][(LoginShown /\ isAppReady' /\ isAuthenticated')
             => sessionStorage'.isAuthenticated]_vars
    /\ [][(StartupCompletes /\ SessionMarker /\ PersistedPassword)
             => (isAuthenticated' /\ sessionStorage'.isAuthenticated)]_vars

\* the page was reloaded within the session of a login: it is starting with
\* the marker and the password in place
C13_Witness ==
    /\ ~isAppReady
    /\ SessionMarker
    /\ PersistedPassword

C15_PasswordChangeKeepsSession ==
    /\ [][SettingsModal_handleSubmit(TRUE)
             => /\ isAuthenticated /\ isAuthenticated'
                /\ PasswordIn(localStorage') =
                      (IF passwordIsSet(currentDetails)
                       THEN currentDetails.password ELSE Undefined)]_vars
    /\ [][(StartupCompletes /\ ~parseThrows(localStorage.tyreQuotes)
           /\ ~parseThrows(localStorage.companyDetails))
             => (isAuthenticated' <=>
                    (PasswordIn(localStorage) = Undefined \/ SessionMarker))]_vars

\* a password was set in a session that never logged in: it is persisted, no
\* marker exists, and the application is still open
C15_Witness ==
    /\ MainShown
    /\ PersistedPassword /\ passwordIsSet(companyDetails)
    /\ ~SessionMarker
    /\ ~parseThrows(localStorage.tyreQuotes)

---------------------------------------------------------------------------
(* The gate over a process's lifetime (ProcessSpec: the store holds no      *)
(* password when the process starts) and in front of the other operations   *)
(* (GuardSpec).                                                             *)

Unlocked == isAppReady /\ isAuthenticated
Locked == isAppReady /\ ~isAuthenticated

DataStep ==
    /\ isAppReady /\ isAppReady'
    /\ <<quotes, localStorage, view, selectedQuote, quote, companyDetails,
         isSettingsOpen, currentDetails>>' #
       <<quotes, localStorage, view, selectedQuote, quote, companyDetails,
         isSettingsOpen, currentDetails>>

\* C17: the gate guards all other interaction: create, edit, save, delete and
\* the settings are available only when startup has completed and the gate is
\* Unlocked; while it is Locked nothing but the login form changes.
C17_GateGuardsOperations ==
    /\ [][DataStep => Unlocked]_vars
    /\ [][(Locked /\ isAppReady') => UNCHANGED gateFrame]_vars
    /\ [](~Unlocked =>
            /\ ~ENABLED handleCreateNew
            /\ \A id \in 1..MaxIds :
                  /\ ~ENABLED handleEditQuote(id)
                  /\ ~ENABLED handleDeleteQuote(id, TRUE, TRUE)
            /\ ~ENABLED QuotationForm_handleSubmit(TRUE)
            /\ ~ENABLED onOpenSettings
            /\ ~ENABLED SettingsModal_handleSubmit(TRUE))

\* the gate is Locked in front of a stored collection while a wrong password
\* sits in the login form
C17_Witness ==
    /\ Locked
    /\ Len(quotes) >= 1
    /\ password # ""
    /\ Str(password) # ConfiguredPassword

---------------------------------------------------------------------------
(* The claims about saving and deleting, checked under QuoteSpec. *)

IdsOf(qs) == {qs[i].id : i \in 1..Len(qs)}

\* the startup reads both records without a failure
LoadSucceeds ==
    /\ StartupCompletes
    /\ ~parseThrows(localStorage.tyreQuotes)
    /\ ~parseThrows(localStorage.companyDetails)

\* C18: save-then-list round trip: when a new quote is saved, the collection
\* read back from the store holds exactly one record with its identifier, with
\* the field values of the saved draft, and a startup that loads the store
\* without a failure puts that collection in memory.
C18_SaveThenListRoundTrip ==
    /\ [][(QuotationForm_handleSubmit(TRUE) /\ quote.id \notin IdsOf(quotes))
             => LET loaded == StoredIn(localStorage')
                IN  /\ Cardinality({i \in 1..Len(loaded) : loaded[i].id = quote.id}) = 1
                    /\ \A i \in 1..Len(loaded) :
                          loaded[i].id = quote.id => loaded[i] = quote]_vars
    /\ [][LoadSucceeds => quotes' = StoredIn(localStorage)]_vars

\* the page is starting again over a store that holds a saved quote
C18_Witness ==
    /\ ~isAppReady
    /\ quotes = <<>>
    /\ \E i \in 1..Len(StoredIn(localStorage)) :
          StoredIn(localStorage)[i].customerName = "A"
    /\ ~parseThrows(localStorage.companyDetails)

\* qs with its first record of that identifier taken out
RECURSIVE RemoveId(_, _)
RemoveId(qs, id) ==
    IF qs = <<>> THEN <<>>
    ELSE IF Head(qs).id = id THEN Tail(qs)
    ELSE <<Head(qs)>> \o RemoveId(Tail(qs), id)

C20_SaveIsUpsert ==
    [][QuotationForm_handleSubmit(TRUE)
          => IF quote.id \in IdsOf(quotes)
             THEN /\ Len(quotes') = Len(quotes)
                  /\ \A i \in 1..Len(quotes) :
                        quotes'[i] = IF quotes[i].id = quote.id THEN quote ELSE quotes[i]
             ELSE /\ Len(quotes') = Len(quotes) + 1
                  /\ quotes'[Len(quotes')] = quote
                  /\ \A i \in 1..Len(quotes) : quotes'[i] = quotes[i]]_vars

\* the first of two stored quotes is open in the form with a changed date: the
\* save that follows replaces it in place
C20_Witness ==
    /\ EditingStored
    /\ Len(quotes) >= 2
    /\ quotes[1].id = quote.id
    /\ quote.date # quotes[1].date
    /\ FormValid(quote)

---------------------------------------------------------------------------
(* The claims about editing, cancelling and saving, checked under EditSpec. *)

\* the record with identifier id is in qs
Holds(qs, id) == findIndex(qs, id) > 0
RecordOf(qs, id) == qs[findIndex(qs, id)]

\* the persisted record of quote id is rewritten with other contents
Rewritten(id) ==
    /\ Holds(StoredIn(localStorage), id)
    /\ Holds(StoredIn(localStorage'), id)
    /\ RecordOf(StoredIn(localStorage'), id) # RecordOf(StoredIn(localStorage), id)

\* C21: cancelling has no side effects.  From the moment a stored quote is
\* opened in the form until the form is left, no edit and no Cancel changes
\* the collection in memory or the persisted one; and the persisted record of
\* a quote is rewritten only by the save of a draft of that very quote, so a
\* cancelled edit does not reach the store with a later save of another quote.
C21_CancelHasNoSideEffects ==
    [][/\ (EditingStored /\ selectedQuote' # Null) => UNCHANGED <<quotes, localStorage>>
       /\ \A id \in 1..MaxIds : Rewritten(id) => (FormShown /\ quote.id = id)]_vars

\* every quote of qs has a line item
AllHaveItems(qs) == \A i \in 1..Len(qs) : Len(qs[i].lineItems) >= 1

\* C22: a quote's lineItems is never empty: the draft of a new quote starts
\* with one line item, every draft has at least one whatever was added and
\* removed, and so has every quote of the collection, in memory and persisted.
C22_LineItemsNeverEmpty ==
    /\ [](/\ quote # NoForm => Len(quote.lineItems) >= 1
          /\ AllHaveItems(quotes)
          /\ AllHaveItems(StoredIn(localStorage)))
    /\ [][(quote = NoForm /\ quote' # NoForm /\ selectedQuote' = Null)
             => Len(quote'.lineItems) = 1]_vars

\* a stored quote with two line items is open and one of them was removed from
\* the draft, which now has a single line item
C22_Witness ==
    /\ EditingStored
    /\ Len(selectedQuote.lineItems) = 2
    /\ Len(quote.lineItems) = 1

---------------------------------------------------------------------------
(* The claims about the settings, checked under SettingsSpec. *)

\* the persisted CompanyDetails record, as JSON.parse returns it
PersistedDetails == localStorage.companyDetails.value

\* details has every field of the record with the record's value, and every
\* other field of the defaults with the default value, and no field besides
MergedOver(details, record) ==
    /\ DOMAIN details = DOMAIN record \cup DOMAIN defaultCompanyDetails
    /\ \A f \in DOMAIN record : details[f] = record[f]
    /\ \A f \in DOMAIN defaultCompanyDetails \ DOMAIN record :
          details[f] = defaultCompanyDetails[f]

\* C23: on load the CompanyDetails in memory is the field-by-field merge of the
\* persisted record over the defaults: a persisted field keeps its persisted
\* value, an absent field takes the default, and with no persisted record the
\* result is the defaults.
C23_MergedOverDefaults ==
    [][LoadSucceeds =>
          IF localStorage.companyDetails = Null
          THEN companyDetails' = defaultCompanyDetails
          ELSE MergedOver(companyDetails', PersistedDetails)]_vars

\* loaded from a record that holds a changed name and no defaultTaxRate: the
\* name is the saved one and the tax rate is the default
C23_Witness ==
    /\ isAppReady /\ ~isSettingsOpen
    /\ localStorage.companyDetails # Null
    /\ localStorage.companyDetails.json
    /\ "defaultTaxRate" \notin DOMAIN PersistedDetails
    /\ PersistedDetails.name = Str("B")
    /\ companyDetails.name = Str("B")
    /\ "defaultTaxRate" \in DOMAIN companyDetails
    /\ companyDetails.defaultTaxRate = defaultCompanyDetails.defaultTaxRate

---------------------------------------------------------------------------
(* The claims about failures of the store, and about what memory and store *)
(* hold: C24 under QuoteSpec, the others under EditSpec.                     *)

\* the persisted record of quote id is gone from the store or has other contents
LostOrOverwritten(id) ==
    /\ Holds(StoredIn(localStorage), id)
    /\ \/ ~Holds(StoredIn(localStorage'), id)
       \/ RecordOf(StoredIn(localStorage'), id) # RecordOf(StoredIn(localStorage), id)

\* C24: no failure path corrupts persisted state.  A save or delete of the
\* loaded application takes a validly persisted quote record out of the store,
\* or overwrites it, only when the application holds that record in memory:
\* after a startup that fell back to the empty collection, no save or delete
\* loses what is persisted under tyreQuotes.
C24_FailureKeepsPersistedQuotes ==
    [][\A id \in 1..MaxIds :
          (isAppReady /\ isAppReady' /\ LostOrOverwritten(id)) => Holds(quotes, id)]_vars

\* the save of the draft, and the confirmed delete of quote id, whose write fails
FailedSave == QuotationForm_handleSubmit(FALSE)
FailedDelete(id) == handleDeleteQuote(id, TRUE, FALSE)

NumericInputs(q) ==
    /\ IsNumber(q.discount)
    /\ IsNumber(q.taxRate)
    /\ \A i \in 1..Len(q.lineItems) :
          IsNumber(q.lineItems[i].quantity) /\ IsNumber(q.lineItems[i].unitAmount)

\* C26: all Calculator inputs are clamped to numeric by the caller: in every
\* draft, and in every quote handed to save (so in every quote of the collection
\* in memory and of the persisted one), discount and taxRate are numbers, never
\* an empty string, and so are each line item's quantity and unitAmount.
C26_InputsAreNumbers ==
    /\ quote # NoForm => NumericInputs(quote)
    /\ \A i \in 1..Len(quotes) : NumericInputs(quotes[i])
    /\ \A i \in 1..Len(StoredIn(localStorage)) : NumericInputs(StoredIn(localStorage)[i])

\* C27: after a successful startup load, whatever is created, edited, changed
\* in a line item, cancelled, saved and deleted, with writes that succeed or
\* fail, the collection in memory equals the collection last persisted under
\* tyreQuotes.
C27_MemoryEqualsStore == isAppReady => quotes = StoredIn(localStorage)

---------------------------------------------------------------------------
(* The claim about what a Locked gate can be opened with, under GateSpec. *)

\* the password of the CompanyDetails in memory, which the login screen is given
MemoryPassword == Get(companyDetails, "password")

---------------------------------------------------------------------------
(* The claim about the direction of the rounding, checked under CalcSpec. *)

\* grossTotal - discount of the draft, as the three components compute it
DraftDiscounted == Sub(DraftGross, quote.discount)

\* -0.5 < r <= 0.5
WithinHalf(r) == Gt(r, Num(-1, 2)) /\ ~Gt(r, Num(1, 2))

\* x lies exactly halfway between two integers
Halfway(x) == x.d = 2

\* C29: the rounding adjustment is bounded and ties round upward: in the form,
\* in the preview and on the card of the list, -0.5 < roundOff <= 0.5 for every
\* input, and when grossTotal - discount lies exactly halfway between two
\* integers the grand total is the larger of the two, for negative totals too.
C29_TiesRoundUpward ==
    LET card == QuoteCard_grandTotal(quote)
    IN  /\ WithinHalf(FormTotals.roundOff)
        /\ WithinHalf(PreviewTotals.roundOff)
        /\ WithinHalf(Sub(card, DraftDiscounted))
        /\ Halfway(DraftDiscounted) =>
              /\ FormTotals.grandTotal = Add(DraftDiscounted, Num(1, 2))
              /\ PreviewTotals.grandTotal = Add(DraftDiscounted, Num(1, 2))
              /\ card = Add(DraftDiscounted, Num(1, 2))

\* a negative total halfway between two integers: 1/2 - 4 = -3.5 gives -3
C29_Witness ==
    /\ Halfway(DraftDiscounted)
    /\ DraftDiscounted.n < 0
    /\ FormTotals.roundOff = Num(1, 2)
    /\ Gt(FormTotals.grandTotal, DraftDiscounted)

---------------------------------------------------------------------------
(* The claim about the QR image read, checked under SettingsSpec. *)

\* a read ends: a FileReader leaves the pending ones while the page stays
\* loaded and the modal is neither opened nor closed
ReadEnds ==
    /\ isAppReady /\ isAppReady'
    /\ isSettingsOpen' = isSettingsOpen
    /\ readers' # readers
    /\ readers' \subseteq readers

\* the reader whose read ends in this step
EndingReader == CHOOSE r \in readers : r \notin readers'

\* new is old with upiQrCode set to url and every other field as it was
OnlyQrCodeSet(old, new, url) ==
    /\ DOMAIN new = DOMAIN old \cup {"upiQrCode"}
    /\ new.upiQrCode = url
    /\ \A f \in DOMAIN old \ {"upiQrCode"} : new[f] = old[f]

\* C30: the asynchronous QR image read only ever changes the settings draft.
\* A read that ends after the settings were saved or the modal was closed
\* changes nothing: not the CompanyDetails in memory, not the persisted ones,
\* not the draft of a modal opened since.  A read that ends while the modal
\* that started it is open sets upiQrCode in the draft and keeps every other
\* field as it was edited up to that moment.
C30_ReadChangesOnlyDraft ==
    [][ReadEnds =>
          /\ UNCHANGED <<companyDetails, localStorage, sessionStorage, isAuthenticated,
                         view, quotes, selectedQuote, quote>>
          /\ IF EndingReader.mounted
             THEN /\ isSettingsOpen
                  /\ OnlyQrCodeSet(currentDetails, currentDetails', EndingReader.result)
             ELSE currentDetails' = currentDetails]_vars

\* the name and the tax rate were edited in the open modal, the image has
\* arrived in the draft beside them, and nothing of it is in the App's details
C30_Witness ==
    /\ isSettingsOpen
    /\ currentDetails.upiQrCode = readAsDataURL("a.png")
    /\ currentDetails.name = Str("B")
    /\ currentDetails.defaultTaxRate = Whole(5)
    /\ companyDetails = defaultCompanyDetails
    /\ \E r \in readers : ~r.mounted

=============================================================================
